---- MODULE Spec2Model ----
(***************************************************************************)
(* Model of src/cbam.py, a Streamlit script.  Streamlit reruns the whole   *)
(* script top to bottom after every user interaction, so every action of   *)
(* this model is one interaction (a widget change or a button press)       *)
(* followed by one complete run of the script.  The widget values are the  *)
(* only state that survives from one run to the next; every other variable *)
(* holds what the latest run computed.                                     *)
(*                                                                         *)
(* Numbers.  The script computes with Python floats and rounds with        *)
(* round(x, 2).  The model is fixed point:                                 *)
(*   - Quantity, Emission Factor, Electricity Used are in tenths,          *)
(*   - Solar %, Efficiency % are whole percents,                           *)
(*   - prices and investment costs are whole euros,                        *)
(*   - unrounded emissions, fees and savings are in units of 1/10000,      *)
(*   - rounded (2 decimal) values are in hundredths.                       *)
(* A value exactly half way between two hundredths is a decimal that has   *)
(* no exact binary float, so round(x, 2) sends it up or down depending on  *)
(* the float nearest to it (round(0.855, 2) = 0.85, round(0.765, 2) =      *)
(* 0.77).  The model leaves that direction open: each run picks the set    *)
(* `up` of half-way values that go up; equal values go the same way.       *)
(***************************************************************************)
EXTENDS Integers, Sequences, FiniteSets, TLC

\* ------------------------------------------------------------------ bounds
\* Largest number of custom scenarios a run of the model uses.
MaxCustom == 2

\* ------------------------------------------------------- program constants
\* max_value of the "Number of Custom Scenarios" input.
NumCustomMax == 5
\* Grid electricity factor 0.7 tCO2/MWh, in tenths.
ElectricityFactor == 7
\* fetch_eu_ets_price() returns 100 on every path.
DefaultEuPrice == 100

templates ==
  [t \in {"Low Reduction", "Medium Reduction", "High Reduction"} |->
     CASE t = "Low Reduction"    -> [Solar |-> 10, Efficiency |-> 5,  Investment |-> 1000]
       [] t = "Medium Reduction" -> [Solar |-> 40, Efficiency |-> 15, Investment |-> 5000]
       [] t = "High Reduction"   -> [Solar |-> 70, Efficiency |-> 30, Investment |-> 10000]]

DefaultTemplates == <<"Low Reduction", "Medium Reduction">>

\* ---------------------------------------------------- input value domains
EuPriceValues      == {1, 100}
LocalPriceValues   == {0, 100}
\* What the form holds when "Add Product" is pressed: product, quantity,
\* emission factor, electricity typed.  The first rounds off half-way values
\* only; the second (1.0 t at 0.9 tCO2/t) produces half-way values.
FormValues         == {<<"Steel", 13, 9, 8>>, <<"Electricity", 10, 9, 8>>}
SolarValues        == {0, 100}
EfficiencyValues   == {0, 5}
InvestmentValues   == {0, 1000}
\* The custom scenarios whose sliders and cost input the modelled user moves;
\* the others keep their defaults.
EditedCustom       == {1}

VARIABLES
  eu_ets_price,        \* widget: EU ETS price
  local_carbon_price,  \* widget: local carbon price
  selected_templates,  \* widget: multiselect, in selection order
  custom_widgets,      \* widgets of the custom scenarios; Len = num_custom
  submit_product,      \* the form's submit button in the latest run
  product_entries,     \* latest run
  all_scenarios,       \* latest run
  detailed_results,    \* latest run: rows of df_detailed
  df_summary,          \* latest run
  best_scenario,       \* latest run: <<>> when the name is not bound
  csv_section,         \* latest run rendered the CSV download
  pdf_section,         \* latest run wrote the report
  error,               \* exception that ended the latest run, or "none"
  previous_entries     \* history: product_entries of the run before the latest

vars == <<eu_ets_price, local_carbon_price, selected_templates, custom_widgets,
          submit_product, product_entries, all_scenarios, detailed_results,
          df_summary, best_scenario, csv_section, pdf_section, error,
          previous_entries>>

\* ----------------------------------------------------------------- helpers
Max(a, b) == IF a >= b THEN a ELSE b

Abs(a) == IF a >= 0 THEN a ELSE -a

Range(s) == {s[i] : i \in 1..Len(s)}

\* Python string order of the scenario names the script can produce.
NameOrder == <<"Custom 1", "Custom 2", "Custom 3", "Custom 4", "Custom 5",
               "High Reduction", "Low Reduction", "Medium Reduction">>

\* Mutant: the loop index is left out of the name.
CustomName_NoIndex(k) == NameOrder[1]

\* f"Custom {i+1}" for the loop index i = k-1.
CustomName(k) == NameOrder[k]

\* round(x, 2): x in 1/10000, result in hundredths.
IsTie(x) == x % 100 = 50

Round2(x, up) ==
  LET lo == x \div 100
      r  == x % 100
  IN IF r < 50 THEN lo
     ELSE IF r > 50 THEN lo + 1
     ELSE IF x \in up THEN lo + 1 ELSE lo

\* ---------------------------------------------------------- the form (2.)
\* electricity_used stays 0.0 for the product "Electricity".
FormRecord(name, qty, ef, elec) ==
  [Product |-> name, Quantity |-> qty, EmissionFactor |-> ef,
   ElectricityUsed |-> IF name # "Electricity" THEN elec ELSE 0]

\* Mutant: the list is kept from run to run (as in a session store).
ProductEntries_Kept(prev, submitted, rec) ==
  IF submitted THEN Append(prev, rec) ELSE prev

\* product_entries = [] and then at most one append.
ProductEntries(prev, submitted, rec) ==
  IF submitted THEN <<rec>> ELSE <<>>

\* --------------------------------------------------------- scenarios (3-4)
TemplateScenarios(sel) ==
  [i \in 1..Len(sel) |->
     [Scenario |-> sel[i], Solar |-> templates[sel[i]].Solar,
      Efficiency |-> templates[sel[i]].Efficiency,
      Investment |-> templates[sel[i]].Investment]]

CustomScenarios(cw) ==
  [i \in 1..Len(cw) |->
     [Scenario |-> CustomName(i), Solar |-> cw[i].Solar,
      Efficiency |-> cw[i].Efficiency, Investment |-> cw[i].Investment]]

AllScenarios(sel, cw) == TemplateScenarios(sel) \o CustomScenarios(cw)

\* ------------------------------------------------------- calculations (5.)
Scope1(p, s) == p.Quantity * p.EmissionFactor * (100 - s.Efficiency)

\* Mutant: the renewable share is charged instead of the grid share.
Scope2_Share(p, s) == p.ElectricityUsed * ElectricityFactor * s.Solar

Scope2(p, s) == p.ElectricityUsed * ElectricityFactor * (100 - s.Solar)

\* Mutant: Scope 2 is left out of the total.
TotalEmissions_NoScope2(p, s) == Scope1(p, s)

TotalEmissions(p, s) == Scope1(p, s) + Scope2(p, s)

\* Mutant: the spread is not clamped at zero.
PriceSpread_NoClamp(eu, local) == eu - local

PriceSpread(eu, local) == Max(eu - local, 0)

CbamFee(p, s, eu, local) == TotalEmissions(p, s) * PriceSpread(eu, local)

NetSavings(p, s, eu, local) == CbamFee(p, s, eu, local) - s.Investment * 10000

ResultRow(p, s, eu, local, up) ==
  [Scenario       |-> s.Scenario,
   Product        |-> p.Product,
   Quantity       |-> p.Quantity,
   Scope1         |-> Round2(Scope1(p, s), up),
   Scope2         |-> Round2(Scope2(p, s), up),
   TotalEmissions |-> Round2(TotalEmissions(p, s), up),
   CbamFee        |-> Round2(CbamFee(p, s, eu, local), up),
   Investment     |-> s.Investment,
   NetSavings     |-> Round2(NetSavings(p, s, eu, local), up)]

RECURSIVE ScenarioLoop(_, _, _, _, _)
ScenarioLoop(scen, pe, eu, local, up) ==
  IF scen = <<>> THEN <<>>
  ELSE [i \in 1..Len(pe) |-> ResultRow(pe[i], Head(scen), eu, local, up)]
       \o ScenarioLoop(Tail(scen), pe, eu, local, up)

DetailedResults(pe, scen, eu, local, up) ==
  IF pe # <<>> /\ scen # <<>> THEN ScenarioLoop(scen, pe, eu, local, up) ELSE <<>>

\* The half-way values a run rounds.
TieValues(pe, scen, eu, local) ==
  {x \in UNION {{Scope1(pe[i], scen[j]), Scope2(pe[i], scen[j]),
                 TotalEmissions(pe[i], scen[j]), CbamFee(pe[i], scen[j], eu, local),
                 NetSavings(pe[i], scen[j], eu, local)} :
                   i \in 1..Len(pe), j \in 1..Len(scen)} : IsTie(x)}

\* ------------------------------------------------------------ summary
\* Mutant: the column is summed over all rows, whatever their group.
RECURSIVE SumColumn_All(_, _, _)
SumColumn_All(rows, name, col) ==
  IF rows = <<>> THEN 0
  ELSE Head(rows)[col] + SumColumn_All(Tail(rows), name, col)

RECURSIVE SumColumn(_, _, _)
SumColumn(rows, name, col) ==
  IF rows = <<>> THEN 0
  ELSE (IF Head(rows).Scenario = name THEN Head(rows)[col] ELSE 0)
       + SumColumn(Tail(rows), name, col)

\* groupby("Scenario") sorts the group keys; sum() adds the three columns.
GroupKeys(rows) ==
  SelectSeq(NameOrder, LAMBDA n : \E i \in 1..Len(rows) : rows[i].Scenario = n)

DfSummary(rows) ==
  IF rows # <<>>
  THEN LET keys == GroupKeys(rows)
       IN [k \in 1..Len(keys) |->
             [Scenario       |-> keys[k],
              TotalEmissions |-> SumColumn(rows, keys[k], "TotalEmissions"),
              CbamFee        |-> SumColumn(rows, keys[k], "CbamFee"),
              NetSavings     |-> SumColumn(rows, keys[k], "NetSavings")]]
  ELSE <<>>

\* ------------------------------------------------------ recommendation (6.)
\* Mutant: idxmin() in place of idxmax().
IdxMax_Min(summary) ==
  CHOOSE i \in 1..Len(summary) :
    /\ \A j \in 1..Len(summary) : summary[j].NetSavings >= summary[i].NetSavings
    /\ \A j \in 1..(i - 1) : summary[j].NetSavings > summary[i].NetSavings

\* Series.idxmax(): the first position that holds the maximum.
IdxMax(summary) ==
  CHOOSE i \in 1..Len(summary) :
    /\ \A j \in 1..Len(summary) : summary[j].NetSavings <= summary[i].NetSavings
    /\ \A j \in 1..(i - 1) : summary[j].NetSavings < summary[i].NetSavings

BestScenario(summary) ==
  IF summary # <<>> THEN <<summary[IdxMax(summary)]>> ELSE <<>>

\* ------------------------------------------------------------- exports
\* Mutant: the download is rendered without the emptiness test.
CsvSection_Always(rows) == TRUE

CsvSection(rows) == rows # <<>>

PdfSection(rows) == rows # <<>>

\* The report reads best_scenario when df_summary is not empty.
PdfReadsBest(rows, summary) == PdfSection(rows) /\ summary # <<>>

RunError(rows, summary, best) ==
  IF PdfReadsBest(rows, summary) /\ best = <<>> THEN "NameError" ELSE "none"

\* --------------------------------------------------------- one script run
Run(submitted, rec, eu, local, sel, cw) ==
  \E pe \in {ProductEntries(product_entries, submitted, rec)} :
  \E scen \in {AllScenarios(sel, cw)} :
  \E up \in SUBSET TieValues(pe, scen, eu, local) :
  \E rows \in {DetailedResults(pe, scen, eu, local, up)} :
  \E summary \in {DfSummary(rows)} :
  \E best \in {BestScenario(summary)} :
    /\ eu_ets_price' = eu
    /\ local_carbon_price' = local
    /\ selected_templates' = sel
    /\ custom_widgets' = cw
    /\ submit_product' = submitted
    /\ product_entries' = pe
    /\ all_scenarios' = scen
    /\ detailed_results' = rows
    /\ df_summary' = summary
    /\ best_scenario' = best
    /\ csv_section' = CsvSection(rows)
    /\ pdf_section' = PdfSection(rows)
    /\ error' = RunError(rows, summary, best)
    /\ previous_entries' = product_entries

\* The form's widgets hold their defaults when nothing was submitted.
NoRecord == FormRecord("Steel", 10, 18, 0)

DefaultCustom == [Solar |-> 0, Efficiency |-> 0, Investment |-> 0]

\* First run of a session: every widget at its default.
Init ==
  /\ eu_ets_price = DefaultEuPrice
  /\ local_carbon_price = 0
  /\ selected_templates = DefaultTemplates
  /\ custom_widgets = <<>>
  /\ submit_product = FALSE
  /\ product_entries = <<>>
  /\ all_scenarios = AllScenarios(DefaultTemplates, <<>>)
  /\ detailed_results = <<>>
  /\ df_summary = <<>>
  /\ best_scenario = <<>>
  /\ csv_section = FALSE
  /\ pdf_section = FALSE
  /\ error = "none"
  /\ previous_entries = <<>>

\* ------------------------------------------------------------ interactions
SetEuPrice ==
  \E v \in EuPriceValues :
    /\ v # eu_ets_price
    /\ Run(FALSE, NoRecord, v, local_carbon_price, selected_templates, custom_widgets)

SetLocalPrice ==
  \E v \in LocalPriceValues :
    /\ v # local_carbon_price
    /\ Run(FALSE, NoRecord, eu_ets_price, v, selected_templates, custom_widgets)

AddProduct ==
  \E f \in FormValues :
    Run(TRUE, FormRecord(f[1], f[2], f[3], f[4]), eu_ets_price, local_carbon_price,
        selected_templates, custom_widgets)

SelectTemplate ==
  \E t \in DOMAIN templates :
    /\ t \notin Range(selected_templates)
    /\ Run(FALSE, NoRecord, eu_ets_price, local_carbon_price,
           Append(selected_templates, t), custom_widgets)

DeselectTemplate ==
  \E t \in Range(selected_templates) :
    Run(FALSE, NoRecord, eu_ets_price, local_carbon_price,
        SelectSeq(selected_templates, LAMBDA x : x # t), custom_widgets)

\* A widget that a run does not render loses its value; a new one starts at
\* its default.
SetNumCustom ==
  \E n \in 0..MaxCustom :
    /\ n <= NumCustomMax
    /\ n # Len(custom_widgets)
    /\ Run(FALSE, NoRecord, eu_ets_price, local_carbon_price, selected_templates,
           [i \in 1..n |-> IF i <= Len(custom_widgets) THEN custom_widgets[i]
                           ELSE DefaultCustom])

SetCustomSolar ==
  \E i \in EditedCustom \cap 1..Len(custom_widgets), v \in SolarValues :
    /\ v # custom_widgets[i].Solar
    /\ Run(FALSE, NoRecord, eu_ets_price, local_carbon_price, selected_templates,
           [custom_widgets EXCEPT ![i].Solar = v])

SetCustomEfficiency ==
  \E i \in EditedCustom \cap 1..Len(custom_widgets), v \in EfficiencyValues :
    /\ v # custom_widgets[i].Efficiency
    /\ Run(FALSE, NoRecord, eu_ets_price, local_carbon_price, selected_templates,
           [custom_widgets EXCEPT ![i].Efficiency = v])

SetCustomInvestment ==
  \E i \in EditedCustom \cap 1..Len(custom_widgets), v \in InvestmentValues :
    /\ v # custom_widgets[i].Investment
    /\ Run(FALSE, NoRecord, eu_ets_price, local_carbon_price, selected_templates,
           [custom_widgets EXCEPT ![i].Investment = v])

\* Pressing the CSV download button reruns the script with no widget changed.
DownloadCsv ==
  /\ csv_section
  /\ Run(FALSE, NoRecord, eu_ets_price, local_carbon_price, selected_templates,
         custom_widgets)

Next ==
  \/ SetEuPrice
  \/ SetLocalPrice
  \/ AddProduct
  \/ SelectTemplate
  \/ DeselectTemplate
  \/ SetNumCustom
  \/ SetCustomSolar
  \/ SetCustomEfficiency
  \/ SetCustomInvestment
  \/ DownloadCsv

Spec == Init /\ [][Next]_vars

\* ================================================================= claims
Rows == 1..Len(detailed_results)

Summaries == 1..Len(df_summary)

\* The scenario a row or a summary entry is about.
ScenarioNamed(name) == CHOOSE s \in Range(all_scenarios) : s.Scenario = name

\* max(eu_ets_price - local_carbon_price, 0) of the latest run.
Spread == IF eu_ets_price > local_carbon_price
          THEN eu_ets_price - local_carbon_price ELSE 0

\* C1: in every result row the reported total emissions equal the reported
\* Scope 1 plus Scope 2 within 0.01, each value being rounded on its own.
ThmC1 ==
  \A i \in Rows :
    Abs(detailed_results[i].TotalEmissions
        - (detailed_results[i].Scope1 + detailed_results[i].Scope2)) <= 1

\* A row whose both scopes are positive and whose total is 0.01 off their sum.
WitC1 ==
  \E i \in Rows :
    /\ detailed_results[i].Scope1 > 0
    /\ detailed_results[i].Scope2 > 0
    /\ detailed_results[i].TotalEmissions
         # detailed_results[i].Scope1 + detailed_results[i].Scope2

\* C2 as stated: in every result row the fee is exactly the row's total
\* emissions times max(eu - local, 0), and the net savings are exactly the
\* row's fee minus the investment cost.
OrigC2 ==
  \A i \in Rows :
    /\ detailed_results[i].CbamFee = detailed_results[i].TotalEmissions * Spread
    /\ detailed_results[i].NetSavings
         = detailed_results[i].CbamFee - 100 * detailed_results[i].Investment

\* C2 amended: the fee is the unrounded total times the spread, rounded to 2
\* decimals, so it is within 0.005 * (spread + 1) of the row's total times
\* the spread; the net savings are within 0.01 of the row's fee minus the
\* investment; with local >= eu the fee is 0 and the net savings are minus
\* the investment.
ThmC2 ==
  \A i \in Rows :
    LET r == detailed_results[i]
        p == product_entries[1]
        s == ScenarioNamed(r.Scenario)
    IN /\ Abs(100 * r.CbamFee - (Scope1(p, s) + Scope2(p, s)) * Spread) <= 50
       /\ 2 * Abs(r.CbamFee - r.TotalEmissions * Spread) <= Spread + 1
       /\ Abs(r.NetSavings - (r.CbamFee - 100 * r.Investment)) <= 1
       /\ Spread = 0 => r.CbamFee = 0 /\ r.NetSavings = - 100 * r.Investment

\* A row of a run with a positive spread whose fee is not its total times the
\* spread.
WitC2 ==
  \E i \in Rows :
    /\ Spread > 0
    /\ detailed_results[i].CbamFee # detailed_results[i].TotalEmissions * Spread

InputIndex(name) == CHOOSE i \in 1..Len(all_scenarios) : all_scenarios[i].Scenario = name

\* C4 as stated: among the scenarios with the maximum summed net savings the
\* recommended one is the first of the input scenario list.
OrigC4 ==
  best_scenario # <<>> =>
    \A k \in Summaries :
      df_summary[k].NetSavings = best_scenario[1].NetSavings =>
        InputIndex(best_scenario[1].Scenario) <= InputIndex(df_summary[k].Scenario)

\* C5: with no product or no scenario the run has no result row, an empty
\* summary and no recommendation, skips both exports and raises nothing.
ThmC5 ==
  (product_entries = <<>> \/ all_scenarios = <<>>) =>
    /\ detailed_results = <<>>
    /\ df_summary = <<>>
    /\ best_scenario = <<>>
    /\ ~csv_section
    /\ ~pdf_section
    /\ error = "none"

\* A run with a submitted product and no scenario at all.
WitC5 == product_entries # <<>> /\ all_scenarios = <<>>

\* The unrounded value behind a column of a row.
RawValue(p, s, col) ==
  CASE col = "TotalEmissions" -> Scope1(p, s) + Scope2(p, s)
    [] col = "CbamFee"        -> (Scope1(p, s) + Scope2(p, s)) * Spread
    [] col = "NetSavings"     -> (Scope1(p, s) + Scope2(p, s)) * Spread
                                   - 10000 * s.Investment

RECURSIVE RawSum(_, _, _)
RawSum(pe, s, col) ==
  IF pe = <<>> THEN 0 ELSE RawValue(Head(pe), s, col) + RawSum(Tail(pe), s, col)

SummedColumns == {"TotalEmissions", "CbamFee", "NetSavings"}

RowsOf(name) == {i \in Rows : detailed_results[i].Scenario = name}

RECURSIVE SumOver(_, _)
SumOver(I, col) ==
  IF I = {} THEN 0
  ELSE LET i == CHOOSE x \in I : TRUE
       IN detailed_results[i][col] + SumOver(I \ {i}, col)

\* C7: the summary has exactly one entry for each scenario that has a result
\* row and no other, and its three totals are the sums of the columns over
\* the rows that carry the scenario's name.
ThmC7 ==
  /\ {df_summary[k].Scenario : k \in Summaries}
       = {detailed_results[i].Scenario : i \in Rows}
  /\ \A k, l \in Summaries :
       df_summary[k].Scenario = df_summary[l].Scenario => k = l
  /\ \A k \in Summaries : \A col \in SummedColumns :
       df_summary[k][col] = SumOver(RowsOf(df_summary[k].Scenario), col)

\* A summary of three or more scenarios with different net savings.
WitC7 ==
  /\ Len(df_summary) >= 3
  /\ \E k, l \in Summaries : df_summary[k].NetSavings # df_summary[l].NetSavings

\* C8: of two rows of a run, the one whose scenario has the larger renewable
\* share never has the larger Scope 2, and a 100% share gives Scope 2 = 0.
ThmC8 ==
  \A i, j \in Rows :
    LET si == ScenarioNamed(detailed_results[i].Scenario)
        sj == ScenarioNamed(detailed_results[j].Scenario)
    IN /\ si.Solar >= sj.Solar =>
            detailed_results[i].Scope2 <= detailed_results[j].Scope2
       /\ si.Solar = 100 => detailed_results[i].Scope2 = 0

\* A product with electricity use, a row at 100% share and a row with a
\* smaller share and a larger Scope 2.
WitC8 ==
  /\ product_entries # <<>>
  /\ product_entries[1].ElectricityUsed > 0
  /\ \E i, j \in Rows :
       /\ ScenarioNamed(detailed_results[i].Scenario).Solar = 100
       /\ ScenarioNamed(detailed_results[j].Scenario).Solar < 100
       /\ detailed_results[i].Scope2 < detailed_results[j].Scope2

\* C9: the names of the merged scenario list are pairwise distinct, so the
\* summary of a run with results has one entry per scenario of the list.
ThmC9 ==
  /\ \A i, j \in 1..Len(all_scenarios) :
       all_scenarios[i].Scenario = all_scenarios[j].Scenario => i = j
  /\ detailed_results # <<>> => Len(df_summary) = Len(all_scenarios)

\* Templates followed by two or more custom scenarios, with results.
WitC9 ==
  /\ Len(selected_templates) >= 1
  /\ Len(custom_widgets) >= 2
  /\ Len(all_scenarios) = Len(selected_templates) + Len(custom_widgets)
  /\ detailed_results # <<>>

\* C10: a run holds at most one product record; without a submission in the
\* same run its product list, rows and summary are empty, whatever the run
\* before held; every row is about the record of the run.
ThmC10 ==
  /\ Len(product_entries) <= 1
  /\ ~submit_product =>
       product_entries = <<>> /\ detailed_results = <<>> /\ df_summary = <<>>
  /\ \A i \in Rows :
       /\ detailed_results[i].Product = product_entries[1].Product
       /\ detailed_results[i].Quantity = product_entries[1].Quantity

\* A run without a submission that follows a run with a product.
WitC10 ==
  /\ previous_entries # <<>>
  /\ ~submit_product
  /\ product_entries = <<>>

====
